---- MODULE Spec2Model ----
(***************************************************************************)
(* The circuit simulation kernel: CircuitData (the arena of nodes and      *)
(* edges), NodeTerminal, SysCircuit::connect, the example nodes (Constant, *)
(* ANDGate, ROM, Printer) and the two phases process_all / propagate_all.  *)
(***************************************************************************)
EXTENDS Integers, Sequences, FiniteSets, TLC

VARIABLES
    m_nodes,   \* CircuitData::m_nodes: index -> node object, index 0 the null pointer
    m_edges,   \* CircuitData::m_edges: index -> wire object, index 0 the null pointer
    phase,     \* where the driver is: "idle", "process", "propagate", "crashed"
    it,        \* the range-for iterator of process_all / propagate_all
    clk,       \* number of completed ticks (main's loop counter)
    cout,      \* what the Printers have written to std::cout, oldest first
    calls,     \* history: the virtual calls made so far in the current tick
    snapshot,  \* history: the wire values at the end of the last tick
    since,     \* history: per node, the position the driver last put it at (0
               \* at construction and when m_state is assigned) and the
               \* propagate calls it has completed since then
    last       \* the last operation performed and how it ended

vars == <<m_nodes, m_edges, phase, it, clk, cout, calls, snapshot, since, last>>

----------------------------------------------------------------------------
(* Bounds of the model *)

MaxNodes == 2
MaxEdges == 2
MaxTicks == 2

(* Program constants *)

nullNode_t == 0
nullEdge_t == 0
MainTicks == 36
MainRomSize == 16

----------------------------------------------------------------------------
(* Vectors indexed from 0 *)

Size(v) == Cardinality(DOMAIN v)

push_back(v, x) == [i \in 0..Size(v) |-> IF i < Size(v) THEN v[i] ELSE x]

----------------------------------------------------------------------------
(* Objects *)

NullNode == [kind |-> "null"]
NullEdge == [T |-> "null"]

NodeTerminal == [m_parentID |-> nullNode_t, m_id |-> nullEdge_t]

DefaultValue(T) == IF T = "bool" THEN FALSE ELSE 0

WireNode(T) == [T |-> T, m_value |-> DefaultValue(T),
                m_in |-> nullNode_t, m_out |-> nullNode_t]

Constant == [kind |-> "Constant", m_state |-> FALSE, m_output |-> NodeTerminal]

ANDGate == [kind |-> "ANDGate", m_inA |-> NodeTerminal, m_inB |-> NodeTerminal,
            m_output |-> NodeTerminal, m_outVal |-> FALSE]

ROM(data) == [kind |-> "ROM", m_data |-> data, m_pc |-> 0, m_output |-> NodeTerminal]

Printer(T) == [kind |-> "Printer", DATA_T |-> T, m_input |-> NodeTerminal]

\* The terminals a node has, by member name
Terminals(node) ==
    CASE node.kind = "Constant" -> {"m_output"}
      [] node.kind = "ANDGate"  -> {"m_inA", "m_inB", "m_output"}
      [] node.kind = "ROM"      -> {"m_output"}
      [] node.kind = "Printer"  -> {"m_input"}
      [] OTHER                  -> {}

\* The CONNECTION_T of a terminal: the value type of the wire it takes
TermType(node, t) ==
    CASE node.kind = "ROM"     -> "uint32_t"
      [] node.kind = "Printer" -> node.DATA_T
      [] OTHER                 -> "bool"

\* operator<< of std::ostream: a bool is written as 0 or 1, a uint32_t in decimal
Fmt(T, v) == IF T = "bool" THEN (IF v THEN 1 ELSE 0) ELSE v

\* What a read through a null pointer or past the end of an array may yield
\* when it does not trap: any value of the type (two of them for uint32_t)
Garbage(T) == IF T = "bool" THEN BOOLEAN ELSE {0, 9}

----------------------------------------------------------------------------
(* Resolving a terminal *)

Fatal == {"segfault", "out_of_range"}

\* NodeTerminal::get: m_edges.at(m_id), then the pointer found there is used
\* as the wire.  at() throws std::out_of_range past the end; the pointer at
\* index 0 is null.
Resolve(edges, t) ==
    IF t.m_id \notin DOMAIN edges THEN "out_of_range"
    ELSE IF edges[t.m_id] = NullEdge THEN "null"
    ELSE "wire"

\* get(rData).m_value read.  Through the null pointer the behaviour is
\* undefined: the read traps, or goes on with whatever it found.
ReadTerm(edges, t, T) ==
    CASE Resolve(edges, t) = "wire" ->
            {[outcome |-> "ok", v |-> edges[t.m_id].m_value,
              rd |-> <<[w |-> t.m_id, v |-> Fmt(T, edges[t.m_id].m_value)]>>]}
      [] Resolve(edges, t) = "null" ->
            {[outcome |-> "segfault", v |-> DefaultValue(T), rd |-> <<>>]}
            \cup {[outcome |-> "ub", v |-> g, rd |-> <<>>] : g \in Garbage(T)}
      [] OTHER ->
            {[outcome |-> "out_of_range", v |-> DefaultValue(T), rd |-> <<>>]}

\* get(rData).m_value = v.  Through the null pointer the behaviour is
\* undefined: the write traps, or is lost.
WriteTerm(edges, t, v) ==
    CASE Resolve(edges, t) = "wire" ->
            {[outcome |-> "ok", edges |-> [edges EXCEPT ![t.m_id].m_value = v],
              wr |-> <<t.m_id>>]}
      [] Resolve(edges, t) = "null" ->
            {[outcome |-> "segfault", edges |-> edges, wr |-> <<>>],
             [outcome |-> "ub", edges |-> edges, wr |-> <<>>]}
      [] OTHER ->
            {[outcome |-> "out_of_range", edges |-> edges, wr |-> <<>>]}

\* The outcome of two steps done one after the other
Both(o1, o2) ==
    IF o1 \in Fatal THEN o1
    ELSE IF o2 \in Fatal THEN o2
    ELSE IF "ub" \in {o1, o2} THEN "ub" ELSE "ok"

----------------------------------------------------------------------------
(* The nodes' process: the set of ways node->process(rData) can end, each
   with the node afterwards, the lines written to std::cout and the wire
   reads made *)

ProcessConstant(node, edges) ==
    {[outcome |-> "ok", node |-> node, printed |-> <<>>, rd |-> <<>>]}

\* The gate computes || where && is meant
ProcessANDGateOr(node, edges) ==
    UNION {
        IF a.outcome \in Fatal
        THEN {[outcome |-> a.outcome, node |-> node, printed |-> <<>>, rd |-> a.rd]}
        ELSE IF a.v
        THEN {[outcome |-> a.outcome, node |-> [node EXCEPT !.m_outVal = TRUE],
               printed |-> <<>>, rd |-> a.rd]}
        ELSE {[outcome |-> Both(a.outcome, b.outcome),
               node |-> IF b.outcome \in Fatal THEN node
                        ELSE [node EXCEPT !.m_outVal = b.v],
               printed |-> <<>>, rd |-> a.rd \o b.rd]
              : b \in ReadTerm(edges, node.m_inB, "bool")}
        : a \in ReadTerm(edges, node.m_inA, "bool")}

\* m_outVal = m_inA.get(rData).m_value && m_inB.get(rData).m_value;
\* && does not evaluate its right operand when the left one is false
ProcessANDGate(node, edges) ==
    UNION {
        IF a.outcome \in Fatal
        THEN {[outcome |-> a.outcome, node |-> node, printed |-> <<>>, rd |-> a.rd]}
        ELSE IF ~a.v
        THEN {[outcome |-> a.outcome, node |-> [node EXCEPT !.m_outVal = FALSE],
               printed |-> <<>>, rd |-> a.rd]}
        ELSE {[outcome |-> Both(a.outcome, b.outcome),
               node |-> IF b.outcome \in Fatal THEN node
                        ELSE [node EXCEPT !.m_outVal = b.v],
               printed |-> <<>>, rd |-> a.rd \o b.rd]
              : b \in ReadTerm(edges, node.m_inB, "bool")}
        : a \in ReadTerm(edges, node.m_inA, "bool")}

ProcessROM(node, edges) ==
    {[outcome |-> "ok", node |-> node, printed |-> <<>>, rd |-> <<>>]}

\* std::cout << m_input.get(rData).m_value << "\n";
ProcessPrinter(node, edges) ==
    {[outcome |-> r.outcome, node |-> node,
      printed |-> IF r.outcome \in Fatal THEN <<>> ELSE <<Fmt(node.DATA_T, r.v)>>,
      rd |-> r.rd]
     : r \in ReadTerm(edges, node.m_input, node.DATA_T)}

Process(node, edges) ==
    CASE node.kind = "Constant" -> ProcessConstant(node, edges)
      [] node.kind = "ANDGate"  -> ProcessANDGate(node, edges)
      [] node.kind = "ROM"      -> ProcessROM(node, edges)
      [] node.kind = "Printer"  -> ProcessPrinter(node, edges)

----------------------------------------------------------------------------
(* The nodes' propagate: the set of ways node->propagate(rData) can end,
   each with the node and the wires afterwards and the wires written *)

\* m_output.get(rData).m_value = m_state;
PropagateConstant(node, edges) ==
    {[outcome |-> r.outcome, node |-> node, edges |-> r.edges, wr |-> r.wr]
     : r \in WriteTerm(edges, node.m_output, node.m_state)}

\* m_output.get(rData).m_value = m_outVal;
PropagateANDGate(node, edges) ==
    {[outcome |-> r.outcome, node |-> node, edges |-> r.edges, wr |-> r.wr]
     : r \in WriteTerm(edges, node.m_output, node.m_outVal)}

\* m_data[m_pc]: std::array::operator[] does no bounds check, so past the end
\* the read traps or yields whatever lies there
ReadData(node) ==
    IF node.m_pc < Len(node.m_data)
    THEN {[outcome |-> "ok", v |-> node.m_data[node.m_pc + 1]]}
    ELSE {[outcome |-> "segfault", v |-> 0]}
         \cup {[outcome |-> "ub", v |-> g] : g \in Garbage("uint32_t")}

\* The position wraps one step late: (++m_pc) %= SIZE + 1
PropagateROMWrapLate(node, edges) ==
    UNION {
        IF d.outcome \in Fatal
        THEN {[outcome |-> d.outcome, node |-> node, edges |-> edges, wr |-> <<>>]}
        ELSE {[outcome |-> Both(d.outcome, r.outcome),
               node |-> IF r.outcome \in Fatal THEN node
                        ELSE [node EXCEPT !.m_pc =
                                (node.m_pc + 1) % (Len(node.m_data) + 1)],
               edges |-> r.edges, wr |-> r.wr]
              : r \in WriteTerm(edges, node.m_output, d.v)}
        : d \in ReadData(node)}

\* The position is advanced before the table is read
PropagateROMPreIncrement(node, edges) ==
    LET next == [node EXCEPT !.m_pc = (node.m_pc + 1) % Len(node.m_data)] IN
    UNION {
        IF d.outcome \in Fatal
        THEN {[outcome |-> d.outcome, node |-> node, edges |-> edges, wr |-> <<>>]}
        ELSE {[outcome |-> Both(d.outcome, r.outcome),
               node |-> IF r.outcome \in Fatal THEN node ELSE next,
               edges |-> r.edges, wr |-> r.wr]
              : r \in WriteTerm(edges, node.m_output, d.v)}
        : d \in ReadData(next)}

\* The position stays on the last entry instead of wrapping
PropagateROMHoldsAtEnd(node, edges) ==
    UNION {
        IF d.outcome \in Fatal
        THEN {[outcome |-> d.outcome, node |-> node, edges |-> edges, wr |-> <<>>]}
        ELSE {[outcome |-> Both(d.outcome, r.outcome),
               node |-> IF r.outcome \in Fatal \/ node.m_pc + 1 >= Len(node.m_data)
                        THEN node
                        ELSE [node EXCEPT !.m_pc = node.m_pc + 1],
               edges |-> r.edges, wr |-> r.wr]
              : r \in WriteTerm(edges, node.m_output, d.v)}
        : d \in ReadData(node)}

\* m_output.get(rData).m_value = m_data[m_pc];  (++m_pc) %= SIZE;
PropagateROM(node, edges) ==
    UNION {
        IF d.outcome \in Fatal
        THEN {[outcome |-> d.outcome, node |-> node, edges |-> edges, wr |-> <<>>]}
        ELSE {[outcome |-> Both(d.outcome, r.outcome),
               node |-> IF r.outcome \in Fatal THEN node
                        ELSE [node EXCEPT !.m_pc =
                                (node.m_pc + 1) % Len(node.m_data)],
               edges |-> r.edges, wr |-> r.wr]
              : r \in WriteTerm(edges, node.m_output, d.v)}
        : d \in ReadData(node)}

\* The sink clears the wire it has consumed
PropagatePrinterClears(node, edges) ==
    {[outcome |-> r.outcome, node |-> node, edges |-> r.edges, wr |-> r.wr]
     : r \in WriteTerm(edges, node.m_input, DefaultValue(node.DATA_T))}

PropagatePrinter(node, edges) ==
    {[outcome |-> "ok", node |-> node, edges |-> edges, wr |-> <<>>]}

Propagate(node, edges) ==
    CASE node.kind = "Constant" -> PropagateConstant(node, edges)
      [] node.kind = "ANDGate"  -> PropagateANDGate(node, edges)
      [] node.kind = "ROM"      -> PropagateROM(node, edges)
      [] node.kind = "Printer"  -> PropagatePrinter(node, edges)

----------------------------------------------------------------------------
(* The arena's operations, as functions of the arena *)

\* The size is taken after the push_back
addReturnsNewSize(nodes, node) ==
    [nodes |-> push_back(nodes, node), id |-> Size(push_back(nodes, node))]

\* CircuitData::add: id = m_nodes.size(); m_nodes.push_back(ptr); return id
add(nodes, node) == [nodes |-> push_back(nodes, node), id |-> Size(nodes)]

\* CircuitData::get: m_nodes.at(id), cast to the type asked for.  at() throws
\* past the end; the pointer at index 0 is null and is returned as it is.
get(nodes, id) ==
    IF id \notin DOMAIN nodes THEN "out_of_range"
    ELSE IF nodes[id] = NullNode THEN "null"
    ELSE "ok"

\* The index is taken after the wire is appended
connectSizeAfter(nodes, edges, an, at, bn, bt) ==
    LET wire  == WireNode(TermType(nodes[an], at))
        id    == Size(push_back(edges, wire))
        withA == [nodes EXCEPT ![an][at].m_id = id]
        withB == [withA EXCEPT ![bn][bt].m_id = id]
    IN  [nodes |-> withB,
         edges |-> push_back(edges,
                     [wire EXCEPT !.m_in  = withB[an][at].m_parentID,
                                  !.m_out = withB[bn][bt].m_parentID]),
         id |-> id]

\* b.m_id = id is forgotten
connectOnlyA(nodes, edges, an, at, bn, bt) ==
    LET id    == Size(edges)
        wire  == WireNode(TermType(nodes[an], at))
        withA == [nodes EXCEPT ![an][at].m_id = id]
    IN  [nodes |-> withA,
         edges |-> push_back(edges,
                     [wire EXCEPT !.m_in  = withA[an][at].m_parentID,
                                  !.m_out = withA[bn][bt].m_parentID]),
         id |-> id]

\* SysCircuit::connect on the terminals a = nodes[an].at and b = nodes[bn].bt:
\* a wire of the terminals' type is appended, then a.m_id and b.m_id are set
\* to its index, then the wire's m_in and m_out are copied from the
\* terminals' m_parentID.
connect(nodes, edges, an, at, bn, bt) ==
    LET id    == Size(edges)
        wire  == WireNode(TermType(nodes[an], at))
        withA == [nodes EXCEPT ![an][at].m_id = id]
        withB == [withA EXCEPT ![bn][bt].m_id = id]
    IN  [nodes |-> withB,
         edges |-> push_back(edges,
                     [wire EXCEPT !.m_in  = withB[an][at].m_parentID,
                                  !.m_out = withB[bn][bt].m_parentID]),
         id |-> id]

----------------------------------------------------------------------------
(* What the driver may build *)

RomTables == {<<1, 2>>}

NodeChoices ==
    {Constant, ANDGate, Printer("bool"), Printer("uint32_t")}
    \cup {ROM(d) : d \in RomTables}

NodeIds == DOMAIN m_nodes \ {nullNode_t}

RomIds == {n \in NodeIds : m_nodes[n].kind = "ROM"}

\* The terminals of the allocated nodes, as <<node id, member name>>
TerminalRefs == {<<n, t>> \in NodeIds \X {"m_inA", "m_inB", "m_output", "m_input"} :
                    t \in Terminals(m_nodes[n])}

\* The arguments jmp is called with: the positions of the table, and the
\* first one past its end (uint32_t values far below 2^32, so that ++m_pc
\* does not wrap)
JmpAddrs(node) == 0..Len(node.m_data)

WireValues(edges) ==
    [w \in DOMAIN edges |-> IF edges[w] = NullEdge THEN 0 ELSE Fmt(edges[w].T, edges[w].m_value)]

Op(op, args, ret, outcome, rd) ==
    [op |-> op, args |-> args, ret |-> ret, outcome |-> outcome, rd |-> rd]

NoSince == [pc0 |-> 0, n |-> 0]

----------------------------------------------------------------------------
(* The state after CircuitData's construction *)

Init ==
    /\ m_nodes = [i \in {0} |-> NullNode]
    /\ m_edges = [i \in {0} |-> NullEdge]
    /\ phase = "idle"
    /\ it = 0
    /\ clk = 0
    /\ cout = <<>>
    /\ calls = <<>>
    /\ snapshot = WireValues(m_edges)
    /\ since = [i \in {0} |-> NoSince]
    /\ last = Op("new", <<>>, 0, "ok", <<>>)

----------------------------------------------------------------------------
(* The driver's operations between ticks *)

Add(node) ==
    /\ phase = "idle"
    /\ Size(m_nodes) <= MaxNodes
    /\ LET r == add(m_nodes, node) IN
        /\ m_nodes' = r.nodes
        /\ since' = push_back(since, NoSince)
        /\ last' = Op("add", <<node>>, r.id, "ok", <<>>)
    /\ UNCHANGED <<m_edges, phase, it, clk, cout, calls, snapshot>>

Get(id) ==
    /\ phase = "idle"
    /\ last' = Op("get", <<id>>, 0, get(m_nodes, id), <<>>)
    /\ UNCHANGED <<m_nodes, m_edges, phase, it, clk, cout, calls, snapshot, since>>

Connect(a, b) ==
    /\ phase = "idle"
    /\ Size(m_edges) <= MaxEdges
    /\ TermType(m_nodes[a[1]], a[2]) = TermType(m_nodes[b[1]], b[2])
    /\ LET r == connect(m_nodes, m_edges, a[1], a[2], b[1], b[2]) IN
        /\ m_nodes' = r.nodes
        /\ m_edges' = r.edges
        /\ last' = Op("connect", <<a, b>>, r.id, "ok", <<>>)
    /\ UNCHANGED <<phase, it, clk, cout, calls, snapshot, since>>

\* The driver assigns a Constant's public m_state
SetState(n, v) ==
    /\ phase = "idle"
    /\ m_nodes[n].kind = "Constant"
    /\ m_nodes[n].m_state # v
    /\ m_nodes' = [m_nodes EXCEPT ![n].m_state = v]
    /\ since' = [since EXCEPT ![n] = NoSince]
    /\ last' = Op("set", <<n>>, 0, "ok", <<>>)
    /\ UNCHANGED <<m_edges, phase, it, clk, cout, calls, snapshot>>

\* ROM::jmp: m_pc = addr
Jmp(n, addr) ==
    /\ phase = "idle"
    /\ m_nodes[n].kind = "ROM"
    /\ m_nodes' = [m_nodes EXCEPT ![n].m_pc = addr]
    /\ since' = [since EXCEPT ![n] = [pc0 |-> addr, n |-> 0]]
    /\ last' = Op("jmp", <<n, addr>>, 0, "ok", <<>>)
    /\ UNCHANGED <<m_edges, phase, it, clk, cout, calls, snapshot>>

----------------------------------------------------------------------------
(* One tick: process_all, then propagate_all *)

\* The loop body of main is entered: process_all starts its range-for
StartTick(limit) ==
    /\ phase = "idle"
    /\ clk < limit
    /\ phase' = "process"
    /\ it' = 0
    /\ calls' = <<>>
    /\ last' = Op("tick", <<>>, 0, "ok", <<>>)
    /\ UNCHANGED <<m_nodes, m_edges, clk, cout, snapshot, since>>

\* A single loop that evaluates each node fully: process, then at once propagate
ProcessNodeFused ==
    /\ phase = "process"
    /\ it < Size(m_nodes)
    /\ IF m_nodes[it] = NullNode
       THEN /\ it' = it + 1
            /\ last' = Op("skip", <<it>>, 0, "ok", <<>>)
            /\ UNCHANGED <<m_nodes, m_edges, phase, cout, calls>>
       ELSE \E r \in Process(m_nodes[it], m_edges) :
            \E q \in Propagate(r.node, m_edges) :
            /\ m_nodes' = [m_nodes EXCEPT ![it] = q.node]
            /\ m_edges' = q.edges
            /\ cout' = cout \o r.printed
            /\ calls' = calls \o << <<"process", it>>, <<"propagate", it>> >>
            /\ last' = Op("process", <<it>>, 0, Both(r.outcome, q.outcome), r.rd)
            /\ IF Both(r.outcome, q.outcome) \in Fatal
               THEN phase' = "crashed" /\ it' = it
               ELSE phase' = phase /\ it' = it + 1
    /\ UNCHANGED <<clk, snapshot, since>>

\* One iteration of process_all's loop: if (node) { node->process(rData); }
ProcessNode ==
    /\ phase = "process"
    /\ it < Size(m_nodes)
    /\ IF m_nodes[it] = NullNode
       THEN /\ it' = it + 1
            /\ last' = Op("skip", <<it>>, 0, "ok", <<>>)
            /\ UNCHANGED <<m_nodes, m_edges, phase, cout, calls>>
       ELSE \E r \in Process(m_nodes[it], m_edges) :
            /\ m_nodes' = [m_nodes EXCEPT ![it] = r.node]
            /\ cout' = cout \o r.printed
            /\ calls' = Append(calls, <<"process", it>>)
            /\ last' = Op("process", <<it>>, 0, r.outcome, r.rd)
            /\ IF r.outcome \in Fatal
               THEN phase' = "crashed" /\ it' = it
               ELSE phase' = phase /\ it' = it + 1
            /\ UNCHANGED m_edges
    /\ UNCHANGED <<clk, snapshot, since>>

\* A loop that stops one element early
ProcessDoneEarly ==
    /\ phase = "process"
    /\ it >= Size(m_nodes) - 1
    /\ phase' = "propagate"
    /\ it' = 0
    /\ last' = Op("process_all", <<>>, 0, "ok", <<>>)
    /\ UNCHANGED <<m_nodes, m_edges, clk, cout, calls, snapshot, since>>

\* process_all returns and propagate_all starts its range-for
ProcessDone ==
    /\ phase = "process"
    /\ it = Size(m_nodes)
    /\ phase' = "propagate"
    /\ it' = 0
    /\ last' = Op("process_all", <<>>, 0, "ok", <<>>)
    /\ UNCHANGED <<m_nodes, m_edges, clk, cout, calls, snapshot, since>>

\* One iteration of propagate_all's loop: if (node) { node->propagate(rData); }
PropagateNode ==
    /\ phase = "propagate"
    /\ it < Size(m_nodes)
    /\ IF m_nodes[it] = NullNode
       THEN /\ it' = it + 1
            /\ last' = Op("skip", <<it>>, 0, "ok", <<>>)
            /\ UNCHANGED <<m_nodes, m_edges, phase, calls, since>>
       ELSE \E r \in Propagate(m_nodes[it], m_edges) :
            /\ m_nodes' = [m_nodes EXCEPT ![it] = r.node]
            /\ m_edges' = r.edges
            /\ calls' = Append(calls, <<"propagate", it>>)
            /\ last' = Op("propagate", <<it>>, 0, r.outcome, r.wr)
            /\ IF r.outcome \in Fatal
               THEN phase' = "crashed" /\ it' = it /\ since' = since
               ELSE /\ phase' = phase
                    /\ it' = it + 1
                    /\ since' = [since EXCEPT ![it].n = @ + 1]
    /\ UNCHANGED <<clk, cout, snapshot>>

\* propagate_all returns: the tick is over
PropagateDone ==
    /\ phase = "propagate"
    /\ it = Size(m_nodes)
    /\ phase' = "idle"
    /\ it' = 0
    /\ clk' = clk + 1
    /\ calls' = <<>>
    /\ snapshot' = WireValues(m_edges)
    /\ last' = Op("propagate_all", <<>>, 0, "ok", <<>>)
    /\ UNCHANGED <<m_nodes, m_edges, cout, since>>

----------------------------------------------------------------------------
(* Any driver: nodes are added, terminals connected, Constants set and ROMs
   jumped between ticks *)

Next ==
    \/ \E node \in NodeChoices : Add(node)
    \/ \E a \in TerminalRefs, b \in TerminalRefs : Connect(a, b)
    \/ \E n \in NodeIds, v \in BOOLEAN : SetState(n, v)
    \/ \E n \in RomIds : \E addr \in JmpAddrs(m_nodes[n]) : Jmp(n, addr)
    \/ StartTick(MaxTicks)
    \/ ProcessNode
    \/ ProcessDone
    \/ PropagateNode
    \/ PropagateDone

Spec == Init /\ [][Next]_vars

----------------------------------------------------------------------------
(* Building only: nodes are added, looked up and connected *)

NextBuild ==
    \/ \E node \in NodeChoices : Add(node)
    \/ \E id \in 0..(MaxNodes + 1) : Get(id)
    \/ \E a \in TerminalRefs, b \in TerminalRefs : Connect(a, b)

SpecBuild == Init /\ [][NextBuild]_vars

----------------------------------------------------------------------------
(* main: a Printer<uint32_t> and a ROM<16> holding 0..15 are added, the
   ROM's output is connected to the Printer's input, 36 ticks are run *)

EmptyArena == [nodes |-> [i \in {0} |-> NullNode], edges |-> [i \in {0} |-> NullEdge]]

romData == [i \in 1..MainRomSize |-> i - 1]

\* The arena with a Printer<uint32_t>, then a ROM holding data, added and
\* connected as main does it
RomPrinterArena(data) ==
    LET printer == add(EmptyArena.nodes, Printer("uint32_t"))
        rom     == add(printer.nodes, ROM(data))
    IN  connect(rom.nodes, EmptyArena.edges, rom.id, "m_output", printer.id, "m_input")

InitArena(arena) ==
    /\ m_nodes = arena.nodes
    /\ m_edges = arena.edges
    /\ phase = "idle"
    /\ it = 0
    /\ clk = 0
    /\ cout = <<>>
    /\ calls = <<>>
    /\ snapshot = WireValues(m_edges)
    /\ since = [i \in DOMAIN m_nodes |-> NoSince]
    /\ last = Op("new", <<>>, 0, "ok", <<>>)

InitMain == InitArena(RomPrinterArena(romData))

NextMain ==
    \/ StartTick(MainTicks)
    \/ ProcessNode
    \/ ProcessDone
    \/ PropagateNode
    \/ PropagateDone

SpecMain == InitMain /\ [][NextMain]_vars

----------------------------------------------------------------------------
(* A ROM of any of a few table lengths feeding a Printer, ticked and jumped *)

MaxSeqTicks == 4

SeqTables == {<<7>>, <<1, 2>>, <<4, 5, 6>>}

InitSeq == \E data \in SeqTables : InitArena(RomPrinterArena(data))

NextSeq ==
    \/ \E n \in RomIds : \E addr \in JmpAddrs(m_nodes[n]) : Jmp(n, addr)
    \/ StartTick(MaxSeqTicks)
    \/ ProcessNode
    \/ ProcessDone
    \/ PropagateNode
    \/ PropagateDone

SpecSeq == InitSeq /\ [][NextSeq]_vars

----------------------------------------------------------------------------
(* Phase ordering *)

\* The value wire w held at the end of the last tick; a wire appended since
\* then holds its initial value
PrevValue(w) ==
    IF w \in DOMAIN snapshot THEN snapshot[w]
    ELSE Fmt(m_edges[w].T, DefaultValue(m_edges[w].T))

Wires == DOMAIN m_edges \ {nullEdge_t}

\* C1: throughout the process phase of a tick every wire holds the value it
\* held at the end of the previous tick, and every wire value a node's
\* process reads is that value: what a propagate writes in tick t is not
\* seen before the process phase of tick t+1.
ProcessSeesPreviousTick ==
    /\ phase = "process" =>
         \A w \in Wires : Fmt(m_edges[w].T, m_edges[w].m_value) = PrevValue(w)
    /\ last.op = "process" =>
         \A i \in DOMAIN last.rd : last.rd[i].v = PrevValue(last.rd[i].w)

\* A process in a later tick has read a value that a propagate wrote
ProcessSeesPreviousTickWitness ==
    /\ last.op = "process"
    /\ clk >= 1
    /\ \E i \in DOMAIN last.rd : last.rd[i].v # 0

\* The calls one whole tick makes, in order
ExpectedCalls ==
    [i \in 1..Cardinality(NodeIds) |-> <<"process", i>>]
    \o [i \in 1..Cardinality(NodeIds) |-> <<"propagate", i>>]

IsPrefix(s, t) == Len(s) <= Len(t) /\ \A i \in 1..Len(s) : s[i] = t[i]

\* C2: the calls a tick has made so far are always an initial part of
\* process(1), ..., process(n), propagate(1), ..., propagate(n), and when
\* propagate_all returns they are all of it.
TickCallsInOrder ==
    /\ [](IsPrefix(calls, ExpectedCalls))
    /\ [][(phase = "propagate" /\ phase' = "idle") => calls = ExpectedCalls]_vars

\* propagate_all is about to return from a tick over two nodes
TickCallsInOrderWitness ==
    /\ phase = "propagate"
    /\ it = Size(m_nodes)
    /\ Cardinality(NodeIds) = 2
    /\ Len(calls) = 4

----------------------------------------------------------------------------
(* main's output *)

\* C3, as claimed: the k-th line main's Printer writes is (k-1) mod 16, so
\* that 20 ticks give 0..15,0,1,2,3 and 36 ticks 0..15,0..15,0,1,2,3.
MainPrintsTableFromFirstTick ==
    \A k \in 1..Len(cout) : cout[k] = (k - 1) % MainRomSize

\* C3, amended: the first line main's Printer writes is 0, the initial value
\* of the wire, and for k >= 2 the k-th line is (k-2) mod 16; when main's
\* loop ends 36 lines have been written.
MainPrintsTableOneTickLate ==
    /\ \A k \in 1..Len(cout) :
         cout[k] = IF k = 1 THEN 0 ELSE (k - 2) % MainRomSize
    /\ (phase = "idle" /\ clk = MainTicks) => Len(cout) = MainTicks

\* 20 ticks have been run and the 20 lines 0,0,1,...,15,0,1,2 written
MainPrintsTableOneTickLateWitness ==
    /\ phase = "idle"
    /\ clk = 20
    /\ Len(cout) = 20
    /\ cout[2] = 0 /\ cout[3] = 1 /\ cout[17] = 15 /\ cout[18] = 0 /\ cout[20] = 2

----------------------------------------------------------------------------
(* Two Constants, true and false, into an ANDGate, the gate into a
   Printer<bool>; the second Constant may be set to true between ticks *)

MaxAndTicks == 5

AndKinds == {"first", "second", "gate", "sink"}

\* The orders in which the four nodes may be added
AndOrders == {o \in [1..4 -> AndKinds] : \A k \in AndKinds : \E i \in 1..4 : o[i] = k}

AndNode(k) ==
    CASE k = "first"  -> [Constant EXCEPT !.m_state = TRUE]
      [] k = "second" -> Constant
      [] k = "gate"   -> ANDGate
      [] k = "sink"   -> Printer("bool")

\* The arena with the four nodes added in order o and connected
AndArena(o) ==
    LET id(k) == CHOOSE i \in 1..4 : o[i] = k
        n1 == add(EmptyArena.nodes, AndNode(o[1]))
        n2 == add(n1.nodes, AndNode(o[2]))
        n3 == add(n2.nodes, AndNode(o[3]))
        n4 == add(n3.nodes, AndNode(o[4]))
        c1 == connect(n4.nodes, EmptyArena.edges, id("first"), "m_output", id("gate"), "m_inA")
        c2 == connect(c1.nodes, c1.edges, id("second"), "m_output", id("gate"), "m_inB")
    IN  connect(c2.nodes, c2.edges, id("gate"), "m_output", id("sink"), "m_input")

InitAnd == \E o \in AndOrders : InitArena(AndArena(o))

GateId == CHOOSE n \in NodeIds : m_nodes[n].kind = "ANDGate"

\* The Constant that feeds the gate's m_inB
SecondSource ==
    CHOOSE n \in NodeIds :
        /\ m_nodes[n].kind = "Constant"
        /\ m_nodes[n].m_output.m_id = m_nodes[GateId].m_inB.m_id

NextAnd ==
    \/ SetState(SecondSource, TRUE)
    \/ StartTick(MaxAndTicks)
    \/ ProcessNode
    \/ ProcessDone
    \/ PropagateNode
    \/ PropagateDone

SpecAnd == InitAnd /\ [][NextAnd]_vars

\* The ticks completed before the second source was set to true
ChangedAfter == clk - since[SecondSource].n

Changed == m_nodes[SecondSource].m_state

\* C4, as claimed: between ticks, every line written is 0 while the second
\* source is false, and once it is true every line written after the first
\* tick that followed the change is 1.
AndSinkTrueAfterOneTick ==
    phase = "idle" =>
        \A k \in 1..Len(cout) :
            /\ ~Changed => cout[k] = 0
            /\ (Changed /\ k > ChangedAfter + 1) => cout[k] = 1

\* C4, amended: between ticks, the sink has written one line per tick; every
\* line is 0 (false) while the second source is false; once it is true, the
\* lines of the first two ticks that followed the change are still 0 and
\* every later line is 1 (true).
AndSinkTrueAfterTwoTicks ==
    phase = "idle" =>
        /\ Len(cout) = clk
        /\ \A k \in 1..Len(cout) :
            cout[k] = IF Changed /\ k > ChangedAfter + 2 THEN 1 ELSE 0

\* The second source was set to true after the first tick, and four ticks
\* later the sink has written 0, 0, 0, 1, 1
AndSinkTrueAfterTwoTicksWitness ==
    /\ phase = "idle"
    /\ Changed
    /\ clk = 5
    /\ ChangedAfter = 1
    /\ cout = <<0, 0, 0, 1, 1>>

----------------------------------------------------------------------------
(* Sequencing of the ROM *)

\* The ROM whose propagate was the last operation, if any
JustPropagated(n) == last.op = "propagate" /\ last.args = <<n>>

\* C5: a ROM with a table of length N that was at position 0 (at
\* construction or by jmp(0)) and has since completed N propagate calls with
\* no jmp is at position 0 again, and its first and its (N+1)-th propagate
\* since then each leave data[0] on its output wire.
RomWrapsAfterTableLength ==
    \A n \in RomIds :
        LET N == Len(m_nodes[n].m_data) IN
        since[n].pc0 = 0 =>
            /\ since[n].n = N => m_nodes[n].m_pc = 0
            /\ (since[n].n \in {1, N + 1} /\ JustPropagated(n)) =>
                 /\ last.rd = <<m_nodes[n].m_output.m_id>>
                 /\ m_edges[m_nodes[n].m_output.m_id].m_value = m_nodes[n].m_data[1]

\* A ROM with a table of length 3 has just made its fourth propagate from
\* position 0, after writing other values in between
RomWrapsAfterTableLengthWitness ==
    \E n \in RomIds :
        /\ Len(m_nodes[n].m_data) = 3
        /\ since[n] = [pc0 |-> 0, n |-> 4]
        /\ JustPropagated(n)
        /\ cout = <<0, m_nodes[n].m_data[1], m_nodes[n].m_data[2], m_nodes[n].m_data[3]>>

----------------------------------------------------------------------------
(* Unattached terminals *)

\* The terminals a node's process or propagate resolves whatever the values
ResolvedBy(node, op) ==
    CASE node.kind = "Constant" /\ op = "propagate" -> {"m_output"}
      [] node.kind = "ANDGate"  /\ op = "process"   -> {"m_inA"}
      [] node.kind = "ANDGate"  /\ op = "propagate" -> {"m_output"}
      [] node.kind = "ROM"      /\ op = "propagate" -> {"m_output"}
      [] node.kind = "Printer"  /\ op = "process"   -> {"m_input"}
      [] OTHER -> {}

\* C6: a process or propagate that resolves a terminal whose wire identity
\* is null ends in DanglingTerminal.
DanglingTerminalRaised ==
    last.op \in {"process", "propagate"} =>
        LET node == m_nodes[last.args[1]] IN
        (\E t \in ResolvedBy(node, last.op) : node[t].m_id = nullEdge_t)
            => last.outcome = "DanglingTerminal"

----------------------------------------------------------------------------
(* connect *)

\* The wire identity held by the terminal r = <<node id, member name>>
Tid(nodes, r) == nodes[r[1]][r[2]].m_id

\* C7: a terminal's wire identity, once not null, never changes.
AttachedTerminalNeverRebound ==
    [][\A r \in TerminalRefs :
          Tid(m_nodes, r) # nullEdge_t => Tid(m_nodes', r) = Tid(m_nodes, r)]_vars

\* C8: a connect of two terminals that are both unattached appends exactly
\* one wire and changes no wire that existed; afterwards both terminals hold
\* the identity of the appended wire, which is not null and was no wire's
\* identity before; no other terminal's wire identity changes.
ConnectAttachesBothToNewWire ==
    [][(last'.op = "connect" /\ last' # last) =>
         LET a == last'.args[1]
             b == last'.args[2]
         IN  (Tid(m_nodes, a) = nullEdge_t /\ Tid(m_nodes, b) = nullEdge_t) =>
               /\ Size(m_edges') = Size(m_edges) + 1
               /\ \A w \in DOMAIN m_edges : m_edges'[w] = m_edges[w]
               /\ Tid(m_nodes', a) = Tid(m_nodes', b)
               /\ Tid(m_nodes', a) \in DOMAIN m_edges' \ DOMAIN m_edges
               /\ Tid(m_nodes', a) # nullEdge_t
               /\ m_edges'[Tid(m_nodes', a)] # NullEdge
               /\ \A r \in TerminalRefs \ {a, b} : Tid(m_nodes', r) = Tid(m_nodes, r)
      ]_vars

\* The second connect of an arena has just joined two distinct terminals,
\* while two other terminals hold the first wire (so that the two joined
\* were unattached)
ConnectAttachesBothToNewWireWitness ==
    /\ last.op = "connect"
    /\ last.ret = 2
    /\ last.args[1] # last.args[2]
    /\ Tid(m_nodes, last.args[1]) = 2
    /\ Tid(m_nodes, last.args[2]) = 2
    /\ \E c, d \in TerminalRefs \ {last.args[1], last.args[2]} :
          c # d /\ Tid(m_nodes, c) = 1 /\ Tid(m_nodes, d) = 1

----------------------------------------------------------------------------
(* The arena *)

\* The number of add calls made: the history holds one entry for each, after
\* the one of slot 0
AddCount == Size(since) - 1

\* The object a slot holds is the same one: its type and what its
\* constructor fixed
SameNode(x, y) ==
    /\ x.kind = y.kind
    /\ x.kind = "ROM" => x.m_data = y.m_data
    /\ x.kind = "Printer" => x.DATA_T = y.DATA_T

\* C9: the numbers of nodes and of wires never decrease; the k-th add returns
\* k, which is at least 1, and the node it added is found there; the
\* identities in use are 1..k; and every slot of either collection keeps
\* holding the same object under every operation.
ArenaAppendOnly ==
    /\ [](/\ NodeIds = 1..AddCount
          /\ last.op = "add" =>
               /\ last.ret = AddCount
               /\ last.ret >= 1
               /\ SameNode(m_nodes[last.ret], last.args[1]))
    /\ [][/\ Size(m_nodes') >= Size(m_nodes)
          /\ Size(m_edges') >= Size(m_edges)
          /\ \A n \in DOMAIN m_nodes :
                n \in DOMAIN m_nodes' /\ SameNode(m_nodes'[n], m_nodes[n])
          /\ \A w \in DOMAIN m_edges :
                w \in DOMAIN m_edges' /\ m_edges'[w].T = m_edges[w].T
         ]_vars

\* A second node has just been added, after a connect and a tick
ArenaAppendOnlyWitness ==
    /\ last.op = "add"
    /\ last.ret = 2
    /\ Size(m_edges) = 2
    /\ clk >= 1
    /\ m_nodes[1].kind # m_nodes[2].kind

\* C10: a lookup by an identity that is not allocated (0, or past the last
\* node) ends in an error.
LookupOfUnallocatedFails ==
    (last.op = "get" /\ last.args[1] \notin NodeIds) =>
        last.outcome \in {"InvalidIdentity", "out_of_range"}

----------------------------------------------------------------------------
(* The wire's ends *)

\* C11: the wire a connect appends has the identity of the node that owns
\* the first terminal as m_in and that of the node that owns the second
\* terminal as m_out.
WireRecordsOwningNodes ==
    last.op = "connect" =>
        /\ m_edges[last.ret].m_in = last.args[1][1]
        /\ m_edges[last.ret].m_out = last.args[2][1]

----------------------------------------------------------------------------
(* Terminals and the wires they name *)

\* C12: every terminal's wire identity is 0 or the index of a wire of
\* m_edges: at least 1, less than the size, and the slot holds a wire of the
\* terminal's value type.
TerminalIdsAreNullOrLive ==
    \A r \in TerminalRefs :
        \/ Tid(m_nodes, r) = nullEdge_t
        \/ /\ Tid(m_nodes, r) >= 1
           /\ Tid(m_nodes, r) < Size(m_edges)
           /\ Tid(m_nodes, r) \in DOMAIN m_edges
           /\ m_edges[Tid(m_nodes, r)] # NullEdge
           /\ m_edges[Tid(m_nodes, r)].T = TermType(m_nodes[r[1]], r[2])

\* After two connects and a tick a terminal holds the last wire, another the
\* first, and a third is unattached
TerminalIdsAreNullOrLiveWitness ==
    /\ Size(m_edges) = 3
    /\ clk >= 1
    /\ \E r1, r2, r3 \in TerminalRefs :
          /\ Tid(m_nodes, r1) = 2
          /\ Tid(m_nodes, r2) = 1
          /\ Tid(m_nodes, r3) = nullEdge_t

----------------------------------------------------------------------------
(* What process and the sink leave alone *)

\* The node the loop of process_all or propagate_all is at is a Printer
AtPrinter ==
    /\ phase \in {"process", "propagate"}
    /\ it \in NodeIds
    /\ m_nodes[it].kind = "Printer"

\* C13: no step of the process phase, whatever the node's type, changes a
\* wire; a Printer's process and a Printer's propagate change no wire and no
\* node.
ProcessAndSinkLeaveWires ==
    [][/\ phase = "process" => m_edges' = m_edges
       /\ AtPrinter => (m_edges' = m_edges /\ m_nodes' = m_nodes)
      ]_vars

\* A Printer's propagate has just returned in a tick in which it printed a
\* value that another node had written, and the wire still holds it
ProcessAndSinkLeaveWiresWitness ==
    /\ last.op = "propagate"
    /\ m_nodes[last.args[1]].kind = "Printer"
    /\ Resolve(m_edges, m_nodes[last.args[1]].m_input) = "wire"
    /\ Fmt(m_nodes[last.args[1]].DATA_T,
           m_edges[m_nodes[last.args[1]].m_input.m_id].m_value) # 0
    /\ cout # <<>>
    /\ cout[Len(cout)] # 0

----------------------------------------------------------------------------
(* A tick as a function of the arena and of the order in which each loop
   visits the nodes *)

\* The state a tick starts from: nothing printed by any node yet
TickState(nodes, edges) ==
    [outcome |-> "ok", nodes |-> nodes, edges |-> edges,
     printed |-> [n \in DOMAIN nodes |-> <<>>]]

\* process_all visiting the nodes in the given order, from each state of S;
\* a run that has trapped or thrown goes no further
RECURSIVE ProcessIn(_, _)
ProcessIn(S, order) ==
    IF order = <<>> THEN S
    ELSE LET n == Head(order) IN
         ProcessIn(UNION {
             IF s.outcome \in Fatal THEN {s}
             ELSE {[outcome |-> Both(s.outcome, r.outcome),
                    nodes |-> [s.nodes EXCEPT ![n] = r.node],
                    edges |-> s.edges,
                    printed |-> [s.printed EXCEPT ![n] = @ \o r.printed]]
                   : r \in Process(s.nodes[n], s.edges)}
             : s \in S}, Tail(order))

\* propagate_all visiting the nodes in the given order, from each state of S
RECURSIVE PropagateIn(_, _)
PropagateIn(S, order) ==
    IF order = <<>> THEN S
    ELSE LET n == Head(order) IN
         PropagateIn(UNION {
             IF s.outcome \in Fatal THEN {s}
             ELSE {[outcome |-> Both(s.outcome, r.outcome),
                    nodes |-> [s.nodes EXCEPT ![n] = r.node],
                    edges |-> r.edges,
                    printed |-> s.printed]
                   : r \in Propagate(s.nodes[n], s.edges)}
             : s \in S}, Tail(order))

\* The ways one tick can end: process_all in order p, then propagate_all in
\* order q
TickIn(nodes, edges, p, q) ==
    PropagateIn(ProcessIn({TickState(nodes, edges)}, p), q)

\* The order of the range-for over m_nodes: by index, the null slot skipped
IndexOrder == [i \in 1..Cardinality(NodeIds) |-> i]

\* Every order in which the allocated nodes can be visited once each
Orders ==
    {o \in [1..Cardinality(NodeIds) -> NodeIds] :
        \A i, j \in 1..Cardinality(NodeIds) : o[i] = o[j] => i = j}

\* Every terminal of every node is attached to a wire
AllAttached ==
    \A r \in TerminalRefs : Resolve(m_edges, m_nodes[r[1]][r[2]]) = "wire"

\* Arenas of sources with different tables
OrderChoices == NodeChoices \cup {ROM(<<7>>)}

NextOrder ==
    \/ \E node \in OrderChoices : Add(node)
    \/ \E a \in TerminalRefs, b \in TerminalRefs : Connect(a, b)
    \/ StartTick(MaxTicks)
    \/ ProcessNode
    \/ ProcessDone
    \/ PropagateNode
    \/ PropagateDone

SpecOrder == Init /\ [][NextOrder]_vars

\* C14: between ticks, in an arena built by add and connect with every
\* terminal attached, the next tick ends with the same wires, the same nodes
\* and the same lines printed by each sink whatever the order in which
\* process_all and propagate_all visit the nodes.
TickIndependentOfVisitingOrder ==
    (phase = "idle" /\ AllAttached) =>
        \A p \in Orders, q \in Orders :
            TickIn(m_nodes, m_edges, p, q)
                = TickIn(m_nodes, m_edges, IndexOrder, IndexOrder)

----------------------------------------------------------------------------
(* One propagate of a ROM *)

\* C15: a propagate of a ROM whose position p is below the table length N
\* leaves data[p], the entry at the position it had before, on the output
\* wire, and leaves the position at (p + 1) mod N.
RomWritesThenAdvances ==
    [][(/\ phase = "propagate"
        /\ it \in RomIds
        /\ m_nodes[it].m_pc < Len(m_nodes[it].m_data))
       => /\ m_edges'[m_nodes[it].m_output.m_id].m_value
                = m_nodes[it].m_data[m_nodes[it].m_pc + 1]
          /\ m_nodes'[it].m_pc = (m_nodes[it].m_pc + 1) % Len(m_nodes[it].m_data)
          /\ last'.outcome = "ok"
      ]_vars

\* A ROM of three entries has just propagated from its last position: the
\* wire holds the last entry and the position is back at 0
RomWritesThenAdvancesWitness ==
    \E n \in RomIds :
        /\ JustPropagated(n)
        /\ last.outcome = "ok"
        /\ Len(m_nodes[n].m_data) = 3
        /\ m_nodes[n].m_pc = 0
        /\ m_edges[m_nodes[n].m_output.m_id].m_value = m_nodes[n].m_data[3]

----------------------------------------------------------------------------
(* The output wires of gates and constants at the end of a tick *)

\* propagate_all has visited every node and is about to return
TickEnding == phase = "propagate" /\ it = Size(m_nodes)

\* The value on the wire a terminal is attached to, as printed
WireOf(t) == Fmt(m_edges[t.m_id].T, m_edges[t.m_id].m_value)

\* C16: when a tick ends in an arena whose terminals are all attached, the
\* output wire of every ANDGate holds the conjunction of the values its two
\* input wires held at the end of the previous tick, and the output wire of
\* every Constant holds the Constant's m_state.
OutputsHoldFunctionOfInputs ==
    (TickEnding /\ AllAttached) =>
        \A n \in NodeIds :
            /\ m_nodes[n].kind = "ANDGate" =>
                 WireOf(m_nodes[n].m_output)
                    = PrevValue(m_nodes[n].m_inA.m_id) * PrevValue(m_nodes[n].m_inB.m_id)
            /\ m_nodes[n].kind = "Constant" =>
                 WireOf(m_nodes[n].m_output) = Fmt("bool", m_nodes[n].m_state)

----------------------------------------------------------------------------
(* The position of a ROM under jmp *)

\* C17: whenever propagate_all is about to call the propagate of a ROM, in a
\* run of ticks with jmp calls between them, the ROM's position is below the
\* length of its table, so m_data[m_pc] reads inside the table.
RomPositionInsideTable ==
    (phase = "propagate" /\ it \in RomIds) =>
        m_nodes[it].m_pc < Len(m_nodes[it].m_data)

----------------------------------------------------------------------------
(* The writers of a wire *)

\* The nodes whose propagate writes wire w: those whose m_output is attached
\* to it
WritersOf(w) ==
    {n \in NodeIds : /\ "m_output" \in Terminals(m_nodes[n])
                     /\ m_nodes[n].m_output.m_id = w}

\* The propagate calls made so far in the current tick that wrote wire w
WritesTo(w) ==
    {i \in DOMAIN calls : calls[i][1] = "propagate" /\ calls[i][2] \in WritersOf(w)}

\* C18: in an arena built by add and connect, no tick that has not trapped
\* has written a wire from the propagate of more than one node (no two
\* output terminals are attached to the same wire).
WireWrittenByOneNode ==
    phase # "crashed" =>
        \A w \in Wires : Cardinality(WritesTo(w)) <= 1

====
